---- MODULE Spec2Model ----
(***************************************************************************)
(* A model of graphst: dense adjacency-matrix graphs (dgraph.rs, graph.rs) *)
(* and the O(V^2) Dijkstra of algorithm/dijkstra.rs.                       *)
(*                                                                         *)
(* A Vec is a sequence; Rust's index i is position i + 1.  An f32 is an    *)
(* integer (every value used is exactly representable and every sum stays  *)
(* far below 2^24, so f32 arithmetic on them is exact); f32::INFINITY is   *)
(* the sentinel INFINITY, larger than every finite sum, absorbing under    *)
(* addition.  A panic is an outcome: a record with ok = FALSE, or the      *)
(* control state "panic" of a dijkstra run.                                *)
(***************************************************************************)
EXTENDS Integers, Sequences, FiniteSets, TLC

VARIABLES g, last, ops, pc, src, dist, visited, current, iter

vars == <<g, last, ops, pc, src, dist, visited, current, iter>>
gvars == <<g, last, ops>>
dvars == <<pc, src, dist, visited, current, iter>>

\* ---------------------------------------------------------------- bounds
\* Largest node count of the graphs handed to dijkstra.
MaxNodes == 3
\* Largest number of non-zero cells of those graphs.
MaxEdges == 3

\* Largest node count of the graphs the API calls act on.
MaxApiNodes == 2
\* Largest number of non-zero cells of a matrix handed to a constructor.
MaxCells == 1
\* Largest number of API calls in a run.
MaxOps == 2
\* Largest node count handed to an edge-list constructor explored on its own.
MaxBuildNodes == 2
\* Longest edge list handed to such a constructor.
MaxListLen == 3
\* Longest list of weighted edges handed to such a constructor.
MaxWeightedLen == 2
\* Largest number of consecutive add_node calls considered from one graph.
MaxAdds == 2
\* Largest number of nodes, and of non-zero cells, of a graph that is queried.
MaxQueryNodes == 2
MaxQueryCells == 3
\* Largest number of non-zero cells of a matrix an undirected graph is built from.
MaxUCells == 2

\* f32::INFINITY
INFINITY == 1000000
\* Non-zero edge weights of the graphs handed to dijkstra: a graph draws its
\* weights from one family, positive weights that make path costs differ, or
\* unit weights of either sign.
WeightFamilies == {{1, 3}, {-1, 1}}
\* Weights handed to the API calls: 0.0 is the "no edge" value
ApiWeights == {-1, 0, 2}
\* Weights of the triples handed to from_weighted_edges: 0.0 and a negative one
BuildWeights == {-3, 0}
\* Non-zero weights of the cells of the graphs that are queried.
QueryWeights == {-1, 2}
\* Non-zero weights of the cells of a matrix an undirected graph is built from.
UMatrixWeights == {1, 4}

\* ---------------------------------------------------------------- Vec
At(v, i) == v[i + 1]
SetAt(v, i, x) == [v EXCEPT ![i + 1] = x]
\* vec![x; n]
RECURSIVE Repeat(_, _)
Repeat(x, n) == IF n = 0 THEN <<>> ELSE Append(Repeat(x, n - 1), x)

\* f32 addition on the modelled values
FAdd(a, b) == IF a = INFINITY \/ b = INFINITY THEN INFINITY ELSE a + b

\* ---------------------------------------------------------------- DGraph
Cell(G, i, j) == At(At(G.adj_mat, i), j)

DGraph_new == [n_nodes |-> 0, adj_mat |-> <<>>]

get_n_nodes(G) == G.n_nodes

\* the range started at 1
get_nodes_FromOne(G) == [k \in 1..G.n_nodes |-> k]

get_nodes(G) == [k \in 1..G.n_nodes |-> k - 1]

\* the transposed matrix handed out
get_adjacency_matrix_Transposed(G) ==
    [i \in 1..Len(G.adj_mat) |-> [j \in 1..Len(G.adj_mat) |-> G.adj_mat[j][i]]]

get_adjacency_matrix(G) == G.adj_mat

Some(w) == [some |-> TRUE, val |-> w]
None == [some |-> FALSE, val |-> 0]
Ok(r) == [ok |-> TRUE, err |-> "", ret |-> r]
Panic(msg) == [ok |-> FALSE, err |-> msg, ret |-> None]

\* only positive cells taken for edges
get_edge_PositiveOnly(G, s, d) ==
    IF s >= G.n_nodes THEN Panic("source node is not valid")
    ELSE IF d >= G.n_nodes THEN Panic("destination node is not valid")
    ELSE IF Cell(G, s, d) > 0 THEN Ok(Some(Cell(G, s, d)))
    ELSE Ok(None)

get_edge(G, s, d) ==
    IF s >= G.n_nodes THEN Panic("source node is not valid")
    ELSE IF d >= G.n_nodes THEN Panic("destination node is not valid")
    ELSE IF Cell(G, s, d) # 0 THEN Ok(Some(Cell(G, s, d)))
    ELSE Ok(None)

\* what a query for a list of nodes returns
OkNodes(v) == [ok |-> TRUE, err |-> "", nodes |-> v]
PanicNodes(msg) == [ok |-> FALSE, err |-> msg, nodes |-> <<>>]

\* .iter().enumerate().filter(|(_, w)| **w != 0.0).map(|(idx, _)| idx) over
\* the first k cells of a row
RECURSIVE NonZeroIdx(_, _)
NonZeroIdx(row, k) ==
    IF k = 0 THEN <<>>
    ELSE IF row[k] # 0 THEN Append(NonZeroIdx(row, k - 1), k - 1)
    ELSE NonZeroIdx(row, k - 1)

\* .iter().enumerate().filter(|(_, w)| w[node] != 0.0).map(|(idx, _)| idx)
\* over the first k rows of a matrix
RECURSIVE NonZeroRows(_, _, _)
NonZeroRows(m, node, k) ==
    IF k = 0 THEN <<>>
    ELSE IF At(m[k], node) # 0 THEN Append(NonZeroRows(m, node, k - 1), k - 1)
    ELSE NonZeroRows(m, node, k - 1)

get_successors_of(G, node) ==
    IF node >= G.n_nodes THEN PanicNodes("node is not valid")
    ELSE OkNodes(NonZeroIdx(At(G.adj_mat, node), Len(At(G.adj_mat, node))))

\* the row of the node read instead of its column
get_predecessors_of_Row(G, node) ==
    IF node >= G.n_nodes THEN PanicNodes("node is not valid")
    ELSE OkNodes(NonZeroIdx(At(G.adj_mat, node), Len(At(G.adj_mat, node))))

get_predecessors_of(G, node) ==
    IF node >= G.n_nodes THEN PanicNodes("node is not valid")
    ELSE OkNodes(NonZeroRows(G.adj_mat, node, Len(G.adj_mat)))

SetCell(m, i, j, x) == [m EXCEPT ![i + 1][j + 1] = x]
Zeros(n) == Repeat(Repeat(0, n), n)

\* the outcome of a &mut self call: the graph it leaves behind
Done(G) == [ok |-> TRUE, err |-> "", g |-> G]
Abort(msg, G) == [ok |-> FALSE, err |-> msg, g |-> G]

\* the new row as long as the old node count
add_node_ShortRow(G) ==
    Done([n_nodes |-> G.n_nodes + 1,
          adj_mat |-> Append([r \in 1..Len(G.adj_mat) |-> Append(G.adj_mat[r], 0)],
                             Repeat(0, G.n_nodes))])

\* the matrix allocated anew, the edges lost
add_node_FreshMatrix(G) ==
    Done([n_nodes |-> G.n_nodes + 1, adj_mat |-> Zeros(G.n_nodes + 1)])

add_node(G) ==
    Done([n_nodes |-> G.n_nodes + 1,
          adj_mat |-> Append([r \in 1..Len(G.adj_mat) |-> Append(G.adj_mat[r], 0)],
                             Repeat(0, G.n_nodes + 1))])

\* an invalid destination silently ignored
add_edge_SilentIgnore(G, s, d) ==
    IF s >= G.n_nodes THEN Abort("source node is not valid", G)
    ELSE IF d >= G.n_nodes THEN Done(G)
    ELSE Done([G EXCEPT !.adj_mat = SetCell(G.adj_mat, s, d, 1)])

add_edge(G, s, d) ==
    IF s >= G.n_nodes THEN Abort("source node is not valid", G)
    ELSE IF d >= G.n_nodes THEN Abort("destination node is not valid", G)
    ELSE Done([G EXCEPT !.adj_mat = SetCell(G.adj_mat, s, d, 1)])

\* the weight 1.0 written whatever the weight given
add_weighted_edge_Unit(G, s, d, weight) ==
    IF s >= G.n_nodes THEN Abort("source node is not valid", G)
    ELSE IF d >= G.n_nodes THEN Abort("destination node is not valid", G)
    ELSE Done([G EXCEPT !.adj_mat = SetCell(G.adj_mat, s, d, 1)])

\* the symmetric cell written too
add_weighted_edge_Symmetric(G, s, d, weight) ==
    IF s >= G.n_nodes THEN Abort("source node is not valid", G)
    ELSE IF d >= G.n_nodes THEN Abort("destination node is not valid", G)
    ELSE Done([G EXCEPT !.adj_mat = SetCell(SetCell(G.adj_mat, s, d, weight),
                                            d, s, weight)])

add_weighted_edge(G, s, d, weight) ==
    IF s >= G.n_nodes THEN Abort("source node is not valid", G)
    ELSE IF d >= G.n_nodes THEN Abort("destination node is not valid", G)
    ELSE Done([G EXCEPT !.adj_mat = SetCell(G.adj_mat, s, d, weight)])

\* the edge written into the transposed cell
RECURSIVE FromEdgesScan_Transposed(_, _, _, _)
FromEdgesScan_Transposed(n, edges, k, m) ==
    IF k > Len(edges) THEN Ok([n_nodes |-> n, adj_mat |-> m])
    ELSE LET edge == edges[k] IN
         IF edge[1] >= n \/ edge[2] >= n THEN Panic("edge is not valid")
         ELSE IF At(At(m, edge[1]), edge[2]) # 0 THEN Panic("edge is repeated")
         ELSE FromEdgesScan_Transposed(n, edges, k + 1,
                                       SetCell(m, edge[2], edge[1], 1))

\* a repeated edge overwritten without a word
RECURSIVE FromEdgesScan_NoRepeatCheck(_, _, _, _)
FromEdgesScan_NoRepeatCheck(n, edges, k, m) ==
    IF k > Len(edges) THEN Ok([n_nodes |-> n, adj_mat |-> m])
    ELSE LET edge == edges[k] IN
         IF edge[1] >= n \/ edge[2] >= n THEN Panic("edge is not valid")
         ELSE FromEdgesScan_NoRepeatCheck(n, edges, k + 1,
                                          SetCell(m, edge[1], edge[2], 1))

RECURSIVE FromEdgesScan(_, _, _, _)
FromEdgesScan(n, edges, k, m) ==
    IF k > Len(edges) THEN Ok([n_nodes |-> n, adj_mat |-> m])
    ELSE LET edge == edges[k] IN
         IF edge[1] >= n \/ edge[2] >= n THEN Panic("edge is not valid")
         ELSE IF At(At(m, edge[1]), edge[2]) # 0 THEN Panic("edge is repeated")
         ELSE FromEdgesScan(n, edges, k + 1, SetCell(m, edge[1], edge[2], 1))

\* the first edge of the list skipped
DGraph_from_edges_SkipFirst(n, edges) == FromEdgesScan(n, edges, 2, Zeros(n))

DGraph_from_edges(n, edges) == FromEdgesScan(n, edges, 1, Zeros(n))

\* an edge with an invalid node skipped instead of refused
RECURSIVE FromWeightedEdgesScan_SkipInvalid(_, _, _, _)
FromWeightedEdgesScan_SkipInvalid(n, edges, k, m) ==
    IF k > Len(edges) THEN Ok([n_nodes |-> n, adj_mat |-> m])
    ELSE LET edge == edges[k] IN
         IF edge[1] >= n \/ edge[2] >= n
         THEN FromWeightedEdgesScan_SkipInvalid(n, edges, k + 1, m)
         ELSE IF At(At(m, edge[1]), edge[2]) # 0 THEN Panic("edge is repeated")
         ELSE FromWeightedEdgesScan_SkipInvalid(n, edges, k + 1,
                                    SetCell(m, edge[1], edge[2], edge[3]))

RECURSIVE FromWeightedEdgesScan(_, _, _, _)
FromWeightedEdgesScan(n, edges, k, m) ==
    IF k > Len(edges) THEN Ok([n_nodes |-> n, adj_mat |-> m])
    ELSE LET edge == edges[k] IN
         IF edge[1] >= n \/ edge[2] >= n THEN Panic("edge is not valid")
         ELSE IF At(At(m, edge[1]), edge[2]) # 0 THEN Panic("edge is repeated")
         ELSE FromWeightedEdgesScan(n, edges, k + 1,
                                    SetCell(m, edge[1], edge[2], edge[3]))

DGraph_from_weighted_edges(n, edges) == FromWeightedEdgesScan(n, edges, 1, Zeros(n))

\* only rows longer than the matrix refused
DGraph_from_adjacency_matrix_LongOnly(m) ==
    IF \E r \in 1..Len(m) : Len(m[r]) > Len(m)
    THEN Panic("the adjacency matrix is not squared")
    ELSE Ok([n_nodes |-> Len(m), adj_mat |-> m])

DGraph_from_adjacency_matrix(m) ==
    IF \E r \in 1..Len(m) : Len(m[r]) # Len(m)
    THEN Panic("the adjacency matrix is not squared")
    ELSE Ok([n_nodes |-> Len(m), adj_mat |-> m])

\* ---------------------------------------------------------------- UGraph
\* The undirected constructors as section 4.3 of the specification describes
\* them: both symmetric cells are written, the repeat check reads cell
\* [i][j] only.
\* cell [i][j] alone written, as Graph::from_edges of graph.rs does
RECURSIVE UFromEdgesScan_OneCell(_, _, _, _)
UFromEdgesScan_OneCell(n, edges, k, m) ==
    IF k > Len(edges) THEN Ok([n_nodes |-> n, adj_mat |-> m])
    ELSE LET edge == edges[k] IN
         IF edge[1] >= n \/ edge[2] >= n THEN Panic("edge is not valid")
         ELSE IF At(At(m, edge[1]), edge[2]) # 0 THEN Panic("edge is repeated")
         ELSE UFromEdgesScan_OneCell(n, edges, k + 1,
                                     SetCell(m, edge[1], edge[2], 1))

RECURSIVE UFromEdgesScan(_, _, _, _)
UFromEdgesScan(n, edges, k, m) ==
    IF k > Len(edges) THEN Ok([n_nodes |-> n, adj_mat |-> m])
    ELSE LET edge == edges[k] IN
         IF edge[1] >= n \/ edge[2] >= n THEN Panic("edge is not valid")
         ELSE IF At(At(m, edge[1]), edge[2]) # 0 THEN Panic("edge is repeated")
         ELSE UFromEdgesScan(n, edges, k + 1,
                  SetCell(SetCell(m, edge[1], edge[2], 1), edge[2], edge[1], 1))

UGraph_from_edges(n, edges) == UFromEdgesScan(n, edges, 1, Zeros(n))

RECURSIVE UFromWeightedEdgesScan(_, _, _, _)
UFromWeightedEdgesScan(n, edges, k, m) ==
    IF k > Len(edges) THEN Ok([n_nodes |-> n, adj_mat |-> m])
    ELSE LET edge == edges[k] IN
         IF edge[1] >= n \/ edge[2] >= n THEN Panic("edge is not valid")
         ELSE IF At(At(m, edge[1]), edge[2]) # 0 THEN Panic("edge is repeated")
         ELSE UFromWeightedEdgesScan(n, edges, k + 1,
                  SetCell(SetCell(m, edge[1], edge[2], edge[3]),
                          edge[2], edge[1], edge[3]))

UGraph_from_weighted_edges(n, edges) == UFromWeightedEdgesScan(n, edges, 1, Zeros(n))

\* The empty undirected graph and the constructor from a raw matrix, as
\* section 4.3 describes them: the matrix is square and symmetric or the
\* construction fails.
UGraph_new == [n_nodes |-> 0, adj_mat |-> <<>>]

\* symmetry not verified
UGraph_from_adjacency_matrix_SquareOnly(m) ==
    IF \E r \in 1..Len(m) : Len(m[r]) # Len(m)
    THEN Panic("the adjacency matrix is not squared")
    ELSE Ok([n_nodes |-> Len(m), adj_mat |-> m])

UGraph_from_adjacency_matrix(m) ==
    IF \E r \in 1..Len(m) : Len(m[r]) # Len(m)
    THEN Panic("the adjacency matrix is not squared")
    ELSE IF \E i, j \in 1..Len(m) : m[i][j] # m[j][i]
    THEN Panic("the adjacency matrix is not symmetric")
    ELSE Ok([n_nodes |-> Len(m), adj_mat |-> m])

\* ---------------------------------------------------------------- Graph
\* The struct of graph.rs, with the same two fields n_nodes and adj_mat.
Graph_from_adjacency_matrix(m) ==
    IF \E r \in 1..Len(m) : Len(m[r]) # Len(m)
    THEN Panic("the adjacency matrix is not squared")
    ELSE Ok([n_nodes |-> Len(m), adj_mat |-> m])

\* the nodes with an edge into the node listed too
RECURSIVE EitherWayIdx(_, _, _)
EitherWayIdx(m, node, k) ==
    IF k = 0 THEN <<>>
    ELSE IF At(At(m, node), k - 1) # 0 \/ At(m[k], node) # 0
         THEN Append(EitherWayIdx(m, node, k - 1), k - 1)
    ELSE EitherWayIdx(m, node, k - 1)

get_neighbors_of_EitherWay(G, node) ==
    IF node >= G.n_nodes THEN PanicNodes("node is not valid")
    ELSE OkNodes(EitherWayIdx(G.adj_mat, node, Len(G.adj_mat)))

get_neighbors_of(G, node) ==
    IF node >= G.n_nodes THEN PanicNodes("node is not valid")
    ELSE OkNodes(NonZeroIdx(At(G.adj_mat, node), Len(At(G.adj_mat, node))))

Graph_add_node(G) ==
    Done([n_nodes |-> G.n_nodes + 1,
          adj_mat |-> Append([r \in 1..Len(G.adj_mat) |-> Append(G.adj_mat[r], 0)],
                             Repeat(0, G.n_nodes + 1))])

add_undirected_connection(G, s, d) ==
    IF s >= G.n_nodes THEN Abort("source node is not valid", G)
    ELSE IF d >= G.n_nodes THEN Abort("destination node is not valid", G)
    ELSE Done([G EXCEPT !.adj_mat = SetCell(SetCell(G.adj_mat, s, d, 1), d, s, 1)])

\* the cell [dest][src] left as it was
add_undirected_weighted_connection_OneCell(G, s, d, weight) ==
    IF s >= G.n_nodes THEN Abort("source node is not valid", G)
    ELSE IF d >= G.n_nodes THEN Abort("destination node is not valid", G)
    ELSE Done([G EXCEPT !.adj_mat = SetCell(G.adj_mat, s, d, weight)])

add_undirected_weighted_connection(G, s, d, weight) ==
    IF s >= G.n_nodes THEN Abort("source node is not valid", G)
    ELSE IF d >= G.n_nodes THEN Abort("destination node is not valid", G)
    ELSE Done([G EXCEPT !.adj_mat = SetCell(SetCell(G.adj_mat, s, d, weight),
                                            d, s, weight)])

\* ---------------------------------------------------------------- dijkstra
\* the running minimum never updated: the last unvisited finite node wins
RECURSIVE MinScan_NoUpdate(_, _, _, _, _, _)
MinScan_NoUpdate(nodes, k, d, vis, min_dist, min_idx) ==
    IF k > Len(nodes) THEN min_idx
    ELSE LET node == nodes[k] IN
         IF At(d, node) < min_dist /\ At(vis, node) = FALSE
         THEN MinScan_NoUpdate(nodes, k + 1, d, vis, min_dist, node)
         ELSE MinScan_NoUpdate(nodes, k + 1, d, vis, min_dist, min_idx)

RECURSIVE MinScan(_, _, _, _, _, _)
MinScan(nodes, k, d, vis, min_dist, min_idx) ==
    IF k > Len(nodes) THEN min_idx
    ELSE LET node == nodes[k] IN
         IF At(d, node) < min_dist /\ At(vis, node) = FALSE
         THEN MinScan(nodes, k + 1, d, vis, At(d, node), node)
         ELSE MinScan(nodes, k + 1, d, vis, min_dist, min_idx)

min_distance_node(G, d, vis) ==
    MinScan(get_nodes(G), 1, d, vis, INFINITY, get_n_nodes(G))

\* one cell too many
AllocDist_OneMore(G) == Repeat(INFINITY, get_n_nodes(G) + 1)

AllocDist(G) == Repeat(INFINITY, get_n_nodes(G))
AllocVisited(G) == Repeat(FALSE, get_n_nodes(G))

\* dist[src] = 0.0: the index is bounds-checked, then the cell is written
\* an off-by-one bounds check
InBounds_OffByOne(v, i) == i <= Len(v)

InBounds(v, i) == i < Len(v)

\* node 0 taken for the source
InitSrc_First(d, s) == SetAt(d, 0, 0)

InitSrc(d, s) == SetAt(d, s, 0)

\* visited nodes relaxed, unvisited ones left alone
ShouldRelax_VisitedOnly(d, vis, cur, n, w) ==
    At(vis, n) = TRUE /\ At(d, n) > FAdd(At(d, cur), w)

\* visited nodes relaxed like any other
ShouldRelax_VisitedToo(d, vis, cur, n, w) ==
    At(d, n) > FAdd(At(d, cur), w)

\* the candidate distance compared without the distance of the current node
ShouldRelax_NoSum(d, vis, cur, n, w) ==
    At(vis, n) = FALSE /\ At(d, n) > w

ShouldRelax(d, vis, cur, n, w) ==
    At(vis, n) = FALSE /\ At(d, n) > FAdd(At(d, cur), w)

RECURSIVE RelaxScan(_, _, _, _, _, _)
RelaxScan(G, nodes, k, d, vis, cur) ==
    IF k > Len(nodes) THEN d
    ELSE LET n == nodes[k]
             e == get_edge(G, cur, n)
         IN  IF ~e.ret.some THEN RelaxScan(G, nodes, k + 1, d, vis, cur)
             ELSE IF ShouldRelax(d, vis, cur, n, e.ret.val)
             THEN RelaxScan(G, nodes, k + 1,
                            SetAt(d, n, FAdd(At(d, cur), e.ret.val)), vis, cur)
             ELSE RelaxScan(G, nodes, k + 1, d, vis, cur)

\* lines 38-42: the working vectors, then dist[src] = 0.0.  Nothing is
\* selected yet: current holds the invalid node get_n_nodes(), the default of
\* min_distance_node.
Dijkstra_call(s) ==
    /\ pc = "idle"
    /\ src' = s
    /\ visited' = AllocVisited(g)
    /\ current' = get_n_nodes(g)
    /\ iter' = 0
    /\ IF InBounds(AllocDist(g), s)
       THEN dist' = InitSrc(AllocDist(g), s) /\ pc' = "loop"
       ELSE dist' = AllocDist(g) /\ pc' = "panic"
    /\ UNCHANGED gvars

\* lines 46-47: select the closest unvisited node and mark it
Dijkstra_select ==
    /\ pc = "loop"
    /\ iter < Len(get_nodes(g))
    /\ current' = min_distance_node(g, dist, visited)
    /\ IF InBounds(visited, current')
       THEN visited' = SetAt(visited, current', TRUE) /\ pc' = "relax"
       ELSE visited' = visited /\ pc' = "panic"
    /\ UNCHANGED <<src, dist, iter>>
    /\ UNCHANGED gvars

\* lines 48-56: the relaxation pass over every node
Dijkstra_relax ==
    /\ pc = "relax"
    /\ dist' = RelaxScan(g, get_nodes(g), 1, dist, visited, current)
    /\ iter' = iter + 1
    /\ pc' = "loop"
    /\ UNCHANGED <<src, visited, current>>
    /\ UNCHANGED gvars

\* line 59
Dijkstra_return ==
    /\ pc = "loop"
    /\ iter = Len(get_nodes(g))
    /\ pc' = "done"
    /\ UNCHANGED <<src, dist, visited, current, iter>>
    /\ UNCHANGED gvars

\* ------------------------------------------------- graphs given to dijkstra
Cells(n) == (0..(n - 1)) \X (0..(n - 1))

\* the first k cells of row i, then the first k rows, of the matrix that
\* holds w on the cells E and 0.0 elsewhere
RECURSIVE RowOf(_, _, _, _)
RowOf(E, w, i, k) ==
    IF k = 0 THEN <<>>
    ELSE Append(RowOf(E, w, i, k - 1),
                IF <<i, k - 1>> \in E THEN w[<<i, k - 1>>] ELSE 0)

RECURSIVE RowsOf(_, _, _, _)
RowsOf(n, E, w, k) ==
    IF k = 0 THEN <<>>
    ELSE Append(RowsOf(n, E, w, k - 1), RowOf(E, w, k - 1, n))

MatrixOf(n, E, w) == RowsOf(n, E, w, n)

\* directed matrices on n nodes with at most MaxEdges non-zero cells
IsGenerated(G) ==
    \E n \in 0..MaxNodes : \E E \in SUBSET Cells(n) :
        /\ Cardinality(E) <= MaxEdges
        /\ \E W \in WeightFamilies : \E w \in [E -> W] :
               G = DGraph_from_adjacency_matrix(MatrixOf(n, E, w)).ret

\* the doc test of dijkstra (dijkstra.rs lines 26-28) and its directed twin
Scenario1Edges == << <<0, 1>>, <<1, 2>>, <<2, 2>> >>
Scenario1DBuilt == DGraph_from_edges(3, Scenario1Edges)
Scenario1UBuilt == UGraph_from_edges(3, Scenario1Edges)
Scenario1D == Scenario1DBuilt.ret
Scenario1U == Scenario1UBuilt.ret

\* the undirected graph of main.rs lines 6-24
Scenario2Edges ==
    << <<0, 1, 4>>, <<0, 7, 8>>, <<1, 2, 8>>, <<1, 7, 11>>, <<2, 3, 7>>,
       <<2, 5, 4>>, <<2, 8, 2>>, <<3, 4, 9>>, <<3, 5, 14>>, <<4, 5, 10>>,
       <<5, 6, 2>>, <<6, 7, 1>>, <<6, 8, 6>>, <<7, 8, 8>> >>
Scenario2Built == UGraph_from_weighted_edges(9, Scenario2Edges)
Scenario2 == Scenario2Built.ret

NoCall ==
    [op |-> "none", args |-> <<>>, edges |-> <<>>, matrix |-> <<>>,
     ok |-> TRUE, err |-> "", ret |-> None, ret_nodes |-> <<>>, ret_matrix |-> <<>>]

InitDijkstra ==
    /\ \/ IsGenerated(g)
       \/ g \in {Scenario1D, Scenario1U, Scenario2}
    /\ last = NoCall
    /\ ops = 0
    /\ pc = "idle"
    /\ src = 0
    /\ dist = <<>>
    /\ visited = <<>>
    /\ current = 0
    /\ iter = 0

\* the caller's source: every valid node and the first invalid index
NextDijkstra ==
    \/ \E s \in 0..get_n_nodes(g) : Dijkstra_call(s)
    \/ Dijkstra_select
    \/ Dijkstra_relax
    \/ Dijkstra_return

SpecDijkstra == InitDijkstra /\ [][NextDijkstra]_vars

\* ---------------------------------------------------------------- API calls
\* Every call is recorded in last: its name, its arguments (the indices,
\* counts and weights in args, an edge list in edges, a matrix in matrix),
\* whether it returned or panicked, and what it returned (an Option in ret,
\* the nodes in ret_nodes, the matrix in ret_matrix).
Record(op, args, ok, err, ret) ==
    [op |-> op, args |-> args, edges |-> <<>>, matrix |-> <<>>,
     ok |-> ok, err |-> err, ret |-> ret, ret_nodes |-> <<>>, ret_matrix |-> <<>>]

NoDijkstra == UNCHANGED dvars

\* square matrices on n nodes with at most MaxCells non-zero cells
SquareInputs ==
    UNION { { MatrixOf(n, E, w) : w \in [E -> ApiWeights \ {0}] } :
              <<n, E>> \in { p \in (0..MaxApiNodes) \X SUBSET Cells(MaxApiNodes) :
                                /\ p[2] \subseteq Cells(p[1])
                                /\ Cardinality(p[2]) <= MaxCells } }

\* the same with one row a cell short or a cell long
RaggedInputs ==
    UNION { { [m EXCEPT ![r] = Append(m[r], 0)] : r \in 1..Len(m) }
              \cup { [m EXCEPT ![r] = Tail(m[r])] : r \in 1..Len(m) } :
            m \in SquareInputs }

Call_from_adjacency_matrix(m) ==
    LET r == DGraph_from_adjacency_matrix(m) IN
    /\ g' = IF r.ok THEN r.ret ELSE g
    /\ last' = [Record("from_adjacency_matrix", <<>>, r.ok, r.err, None)
                  EXCEPT !.matrix = m]
    /\ ops' = ops + 1
    /\ NoDijkstra

\* edge lists: every pair over the valid nodes and the first invalid index
EdgePairs(n) == (0..n) \X (0..n)
EdgeTriples(n) == { <<p[1], p[2], w>> : p \in EdgePairs(n), w \in BuildWeights }
\* the edge lists of length len over the edges S
Lists(S, len) == [1..len -> S]

Call_from_edges(n, edges) ==
    LET r == DGraph_from_edges(n, edges) IN
    /\ g' = IF r.ok THEN r.ret ELSE g
    /\ last' = [Record("from_edges", <<n>>, r.ok, r.err, None)
                  EXCEPT !.edges = edges]
    /\ ops' = ops + 1
    /\ NoDijkstra

Call_from_weighted_edges(n, edges) ==
    LET r == DGraph_from_weighted_edges(n, edges) IN
    /\ g' = IF r.ok THEN r.ret ELSE g
    /\ last' = [Record("from_weighted_edges", <<n>>, r.ok, r.err, None)
                  EXCEPT !.edges = edges]
    /\ ops' = ops + 1
    /\ NoDijkstra

\* the undirected constructor of section 4.3
Call_UGraph_from_edges(n, edges) ==
    LET r == UGraph_from_edges(n, edges) IN
    /\ g' = IF r.ok THEN r.ret ELSE g
    /\ last' = [Record("UGraph::from_edges", <<n>>, r.ok, r.err, None)
                  EXCEPT !.edges = edges]
    /\ ops' = ops + 1
    /\ NoDijkstra

Call_get_nodes ==
    /\ ops < MaxOps
    /\ g' = g
    /\ last' = [Record("get_nodes", <<>>, TRUE, "", None)
                  EXCEPT !.ret_nodes = get_nodes(g)]
    /\ ops' = ops + 1
    /\ NoDijkstra

Call_get_adjacency_matrix ==
    /\ ops < MaxOps
    /\ g' = g
    /\ last' = [Record("get_adjacency_matrix", <<>>, TRUE, "", None)
                  EXCEPT !.ret_matrix = get_adjacency_matrix(g)]
    /\ ops' = ops + 1
    /\ NoDijkstra

Call_add_node ==
    LET r == add_node(g) IN
    /\ ops < MaxOps
    /\ get_n_nodes(g) < MaxApiNodes
    /\ g' = r.g
    /\ last' = Record("add_node", <<>>, r.ok, r.err, None)
    /\ ops' = ops + 1
    /\ NoDijkstra

Call_add_edge(s, d) ==
    LET r == add_edge(g, s, d) IN
    /\ ops < MaxOps
    /\ g' = r.g
    /\ last' = Record("add_edge", <<s, d>>, r.ok, r.err, None)
    /\ ops' = ops + 1
    /\ NoDijkstra

Call_add_weighted_edge(s, d, w) ==
    LET r == add_weighted_edge(g, s, d, w) IN
    /\ ops < MaxOps
    /\ g' = r.g
    /\ last' = Record("add_weighted_edge", <<s, d, w>>, r.ok, r.err, None)
    /\ ops' = ops + 1
    /\ NoDijkstra

Call_get_edge(s, d) ==
    LET r == get_edge(g, s, d) IN
    /\ ops < MaxOps
    /\ g' = g
    /\ last' = Record("get_edge", <<s, d>>, r.ok, r.err, r.ret)
    /\ ops' = ops + 1
    /\ NoDijkstra

\* DGraph::new(), no call made yet, no dijkstra run
Init ==
    /\ g = DGraph_new
    /\ last = NoCall
    /\ ops = 0
    /\ pc = "idle"
    /\ src = 0
    /\ dist = <<>>
    /\ visited = <<>>
    /\ current = 0
    /\ iter = 0

\* the caller's indices: every valid node and the first invalid index
Indices == 0..get_n_nodes(g)

Next ==
    \/ ops = 0 /\ \E m \in SquareInputs \cup RaggedInputs : Call_from_adjacency_matrix(m)
    \/ ops = 0 /\ \E n \in 0..MaxApiNodes :
                     \E len \in 0..MaxCells : \E edges \in Lists(EdgePairs(n), len) :
                         Call_from_edges(n, edges)
    \/ ops = 0 /\ \E n \in 0..MaxApiNodes :
                     \E len \in 0..MaxCells : \E edges \in Lists(EdgeTriples(n), len) :
                         Call_from_weighted_edges(n, edges)
    \/ Call_get_nodes
    \/ Call_get_adjacency_matrix
    \/ Call_add_node
    \/ \E s, d \in Indices : Call_add_edge(s, d)
    \/ \E s, d \in Indices : \E w \in ApiWeights : Call_add_weighted_edge(s, d, w)
    \/ \E s, d \in Indices : Call_get_edge(s, d)

Spec == Init /\ [][Next]_vars

\* The edge-list constructors on their own, over longer lists: one call on
\* the freshly started program.
NextBuild ==
    \/ ops = 0 /\ \E n \in 0..MaxBuildNodes :
                     \E len \in 0..MaxListLen : \E edges \in Lists(EdgePairs(n), len) :
                         Call_from_edges(n, edges)
    \/ ops = 0 /\ \E n \in 0..MaxBuildNodes :
                     \E len \in 0..MaxWeightedLen : \E edges \in Lists(EdgeTriples(n), len) :
                         Call_from_weighted_edges(n, edges)
    \/ ops = 0 /\ \E n \in 0..MaxBuildNodes :
                     \E len \in 0..MaxListLen : \E edges \in Lists(EdgePairs(n), len) :
                         Call_UGraph_from_edges(n, edges)

SpecBuild == Init /\ [][NextBuild]_vars

\* ------------------------------------------------------------ node queries
\* A query leaves the graph as it is and may follow any other query.
Call_get_successors_of(v) ==
    LET r == get_successors_of(g, v) IN
    /\ g' = g
    /\ last' = [Record("get_successors_of", <<v>>, r.ok, r.err, None)
                  EXCEPT !.ret_nodes = r.nodes]
    /\ ops' = ops
    /\ NoDijkstra

Call_get_predecessors_of(v) ==
    LET r == get_predecessors_of(g, v) IN
    /\ g' = g
    /\ last' = [Record("get_predecessors_of", <<v>>, r.ok, r.err, None)
                  EXCEPT !.ret_nodes = r.nodes]
    /\ ops' = ops
    /\ NoDijkstra

Call_get_neighbors_of(v) ==
    LET r == get_neighbors_of(g, v) IN
    /\ g' = g
    /\ last' = [Record("get_neighbors_of", <<v>>, r.ok, r.err, None)
                  EXCEPT !.ret_nodes = r.nodes]
    /\ ops' = ops
    /\ NoDijkstra

\* square matrices on at most MaxQueryNodes nodes with at most MaxQueryCells
\* non-zero cells
QueryInputs ==
    UNION { { MatrixOf(n, E, w) : w \in [E -> QueryWeights] } :
              <<n, E>> \in { p \in (0..MaxQueryNodes) \X SUBSET Cells(MaxQueryNodes) :
                                /\ p[2] \subseteq Cells(p[1])
                                /\ Cardinality(p[2]) <= MaxQueryCells } }

\* a graph built from its matrix, a DGraph or a Graph, which hold the same
\* fields; no query made yet
InitQuery ==
    /\ \E m \in QueryInputs : g \in { DGraph_from_adjacency_matrix(m).ret,
                                      Graph_from_adjacency_matrix(m).ret }
    /\ last = NoCall
    /\ ops = 1
    /\ pc = "idle"
    /\ src = 0
    /\ dist = <<>>
    /\ visited = <<>>
    /\ current = 0
    /\ iter = 0

NextQuery ==
    \/ \E v \in Indices : Call_get_successors_of(v)
    \/ \E v \in Indices : Call_get_predecessors_of(v)
    \/ \E v \in Indices : Call_get_neighbors_of(v)

SpecQuery == InitQuery /\ [][NextQuery]_vars

\* ------------------------------------------------------- undirected graphs
\* An undirected graph: built by one of the constructors of section 4.3,
\* then changed by add_node and by the undirected mutators of graph.rs.
Call_UGraph_from_adjacency_matrix(m) ==
    LET r == UGraph_from_adjacency_matrix(m) IN
    /\ g' = IF r.ok THEN r.ret ELSE g
    /\ last' = [Record("UGraph::from_adjacency_matrix", <<>>, r.ok, r.err, None)
                  EXCEPT !.matrix = m]
    /\ ops' = ops + 1
    /\ NoDijkstra

Call_UGraph_from_weighted_edges(n, edges) ==
    LET r == UGraph_from_weighted_edges(n, edges) IN
    /\ g' = IF r.ok THEN r.ret ELSE g
    /\ last' = [Record("UGraph::from_weighted_edges", <<n>>, r.ok, r.err, None)
                  EXCEPT !.edges = edges]
    /\ ops' = ops + 1
    /\ NoDijkstra

Call_Graph_add_node ==
    LET r == Graph_add_node(g) IN
    /\ ops < MaxOps
    /\ get_n_nodes(g) < MaxBuildNodes
    /\ g' = r.g
    /\ last' = Record("add_node", <<>>, r.ok, r.err, None)
    /\ ops' = ops + 1
    /\ NoDijkstra

Call_add_undirected_connection(s, d) ==
    LET r == add_undirected_connection(g, s, d) IN
    /\ ops < MaxOps
    /\ g' = r.g
    /\ last' = Record("add_undirected_connection", <<s, d>>, r.ok, r.err, None)
    /\ ops' = ops + 1
    /\ NoDijkstra

Call_add_undirected_weighted_connection(s, d, w) ==
    LET r == add_undirected_weighted_connection(g, s, d, w) IN
    /\ ops < MaxOps
    /\ g' = r.g
    /\ last' = Record("add_undirected_weighted_connection", <<s, d, w>>,
                      r.ok, r.err, None)
    /\ ops' = ops + 1
    /\ NoDijkstra

\* square matrices, symmetric or not, on at most MaxBuildNodes nodes with at
\* most MaxUCells non-zero cells
USquareInputs ==
    UNION { { MatrixOf(n, E, w) : w \in [E -> UMatrixWeights] } :
              <<n, E>> \in { p \in (0..MaxBuildNodes) \X SUBSET Cells(MaxBuildNodes) :
                                /\ p[2] \subseteq Cells(p[1])
                                /\ Cardinality(p[2]) <= MaxUCells } }

\* the same with one row a cell short or a cell long
URaggedInputs ==
    UNION { { [m EXCEPT ![r] = Append(m[r], 0)] : r \in 1..Len(m) }
              \cup { [m EXCEPT ![r] = Tail(m[r])] : r \in 1..Len(m) } :
            m \in USquareInputs }

\* UGraph::new(), no call made yet
InitUndirected ==
    /\ g = UGraph_new
    /\ last = NoCall
    /\ ops = 0
    /\ pc = "idle"
    /\ src = 0
    /\ dist = <<>>
    /\ visited = <<>>
    /\ current = 0
    /\ iter = 0

NextUndirected ==
    \/ ops = 0 /\ \E m \in USquareInputs \cup URaggedInputs :
                     Call_UGraph_from_adjacency_matrix(m)
    \/ ops = 0 /\ \E n \in 0..MaxBuildNodes :
                     \E len \in 0..MaxWeightedLen : \E edges \in Lists(EdgePairs(n), len) :
                         Call_UGraph_from_edges(n, edges)
    \/ ops = 0 /\ \E n \in 0..MaxBuildNodes :
                     \E len \in 0..MaxWeightedLen : \E edges \in Lists(EdgeTriples(n), len) :
                         Call_UGraph_from_weighted_edges(n, edges)
    \/ Call_Graph_add_node
    \/ \E s, d \in Indices : Call_add_undirected_connection(s, d)
    \/ \E s, d \in Indices : \E w \in ApiWeights :
           Call_add_undirected_weighted_connection(s, d, w)

SpecUndirected == InitUndirected /\ [][NextUndirected]_vars

\* ---------------------------------------------------------------- reference
\* Shortest path costs computed independently of dijkstra: the cheapest walk
\* from s with at most k edges (Bellman-Ford), and plain reachability.
Nodes(G) == 0..(get_n_nodes(G) - 1)

MinOf(S) == CHOOSE x \in S : \A y \in S : x <= y

\* the cost of node i after one more round: it may improve through one more edge
Improved(G, p, i) ==
    MinOf({At(p, i)} \cup { FAdd(At(p, j), Cell(G, j, i)) :
                              j \in { x \in Nodes(G) : Cell(G, x, i) # 0 } })

\* one round over the nodes 0 .. k-1
RECURSIVE Extend(_, _, _)
Extend(G, p, k) ==
    IF k = 0 THEN <<>> ELSE Append(Extend(G, p, k - 1), Improved(G, p, k - 1))

RECURSIVE WalkCosts(_, _, _)
WalkCosts(G, p, k) ==
    IF k = 0 THEN p
    ELSE LET q == Extend(G, p, get_n_nodes(G)) IN
         IF q = p THEN p ELSE WalkCosts(G, q, k - 1)

ShortestCosts(G, s) ==
    WalkCosts(G, SetAt(Repeat(INFINITY, get_n_nodes(G)), s, 0), get_n_nodes(G))

RECURSIVE ReachSet(_, _, _)
ReachSet(G, S, k) ==
    IF k = 0 THEN S
    ELSE LET T == S \cup { j \in Nodes(G) : \E i \in S : Cell(G, i, j) # 0 } IN
         IF T = S THEN S ELSE ReachSet(G, T, k - 1)

Reachable(G, s) == ReachSet(G, {s}, get_n_nodes(G))

\* a cell of 0.0 is no edge, so "every weight positive" and "no weight
\* negative" name the same matrices
AllPositive(G) == \A i, j \in Nodes(G) : Cell(G, i, j) # 0 => Cell(G, i, j) > 0
NonNegative(G) == \A i, j \in Nodes(G) : ~(Cell(G, i, j) < 0)
\* a call that has ended, by returning or by panicking
Ended == pc \in {"done", "panic"}
ValidRun == Ended /\ src < get_n_nodes(g)

\* ---------------------------------------------------------------- claims

\* C1: on a graph whose weights are all positive and whose nodes are all
\* reachable from a valid source, the run returns, and the vector it returns
\* holds at every index the minimum over all paths of the summed weights.
C1_ShortestPaths ==
    (ValidRun /\ AllPositive(g) /\ Reachable(g, src) = Nodes(g))
        => /\ pc # "panic"
           /\ pc = "done" => dist = ShortestCosts(g, src)

\* a returned result in which a two-edge path beat the direct edge
C1_Witness ==
    /\ pc = "done" /\ AllPositive(g) /\ Reachable(g, src) = Nodes(g)
    /\ get_n_nodes(g) >= 3
    /\ \E i \in Nodes(g) : Cell(g, src, i) # 0 /\ At(dist, i) < Cell(g, src, i)

\* C2 (as claimed): with a valid source the call returns, and every node
\* that is not reachable from the source holds positive infinity.
C2_UnreachableInfinite ==
    ValidRun
        => /\ pc # "panic"
           /\ pc = "done" =>
                \A i \in Nodes(g) \ Reachable(g, src) : At(dist, i) = INFINITY

\* C3: a returned distance vector has exactly get_n_nodes() entries.
C3_Length == pc = "done" => Len(dist) = get_n_nodes(g)

C3_Witness == pc = "done" /\ get_n_nodes(g) >= 2

\* C4: on a graph without negative weights a returned distance vector holds
\* 0 at the source.
C4_SourceZero == (pc = "done" /\ NonNegative(g)) => At(dist, src) = 0

\* a returned result for a source other than node 0 that has an incoming edge
C4_Witness ==
    /\ pc = "done" /\ NonNegative(g) /\ src > 0
    /\ \E i \in Nodes(g) : i # src /\ Cell(g, i, src) # 0

Scenario1Result == <<0, 1, 2>>

\* C5: from_edges(3, [(0,1),(1,2),(2,2)]) succeeds, directed and undirected,
\* and dijkstra from node 0 returns [0.0, 1.0, 2.0] on either graph.
C5_Scenario1 ==
    /\ Scenario1DBuilt.ok
    /\ Scenario1UBuilt.ok
    /\ (Ended /\ src = 0 /\ g \in {Scenario1D, Scenario1U})
          => /\ pc # "panic"
             /\ pc = "done" => dist = Scenario1Result

C5_Witness == pc = "done" /\ g = Scenario1D /\ src = 0 /\ dist = Scenario1Result

Scenario2Result == <<0, 4, 12, 19, 21, 11, 9, 8, 14>>

\* C6: on the undirected 9-node graph of main.rs dijkstra from node 0
\* returns [0,4,12,19,21,11,9,8,14].
C6_Scenario2 ==
    /\ Scenario2Built.ok
    /\ (Ended /\ src = 0 /\ g = Scenario2)
          => /\ pc # "panic"
             /\ pc = "done" => dist = Scenario2Result

C6_Witness == pc = "done" /\ g = Scenario2 /\ src = 0 /\ dist = Scenario2Result

\* C7 (as claimed): a call on the empty graph does not fail, and what it
\* returns is the empty vector.
C7_EmptyGraph ==
    (get_n_nodes(g) = 0 /\ pc # "idle") => (pc # "panic" /\ dist = <<>>)

\* C8: a source >= get_n_nodes() on a non-empty graph ends the call in a
\* failure before the main loop: nothing is selected, marked or relaxed, and
\* nothing is returned.
C8_InvalidSourceRejected ==
    (pc # "idle" /\ get_n_nodes(g) > 0 /\ src >= get_n_nodes(g))
        => /\ pc = "panic"
           /\ iter = 0
           /\ current = get_n_nodes(g)
           /\ visited = AllocVisited(g)
           /\ \A i \in Nodes(g) : At(dist, i) = INFINITY

C8_Witness == pc = "panic" /\ get_n_nodes(g) >= 2 /\ src >= get_n_nodes(g)

\* the call recorded in last was made on a graph of n nodes with an index
\* out of range
BadIndexCall(n) ==
    /\ last'.op \in {"get_edge", "add_edge", "add_weighted_edge"}
    /\ (last'.args[1] >= n \/ last'.args[2] >= n)

\* C9: a get_edge, add_edge or add_weighted_edge call with src >= n_nodes or
\* dest >= n_nodes fails and leaves n_nodes and every cell as they were.
C9_FailedCallNoChange ==
    [][(ops' = ops + 1 /\ BadIndexCall(get_n_nodes(g))) => (~last'.ok /\ g' = g)]_vars

\* a failed add_weighted_edge on a graph that has an edge
C9_Witness ==
    /\ last.op = "add_weighted_edge" /\ ~last.ok
    /\ last.args[1] < get_n_nodes(g) /\ last.args[2] >= get_n_nodes(g)
    /\ \E i, j \in Nodes(g) : Cell(g, i, j) # 0

ValidGetEdge ==
    /\ last.op = "get_edge"
    /\ last.args[1] < get_n_nodes(g) /\ last.args[2] < get_n_nodes(g)

\* C10: for a valid pair get_edge returns Some(w), w the cell [src][dest],
\* when that cell is not 0.0, and None exactly when the cell is 0.0.
C10_GetEdge ==
    ValidGetEdge =>
        LET c == Cell(g, last.args[1], last.args[2]) IN
        /\ last.ok
        /\ c # 0 => last.ret = Some(c)
        /\ last.ret = None <=> c = 0

\* a negative weight read back
C10_Witness ==
    /\ ValidGetEdge
    /\ last.ret.some /\ last.ret.val < 0

\* ------------------------------------------------------ claims, construction
\* the arguments of the constructor call recorded in last
BuiltN == last.args[1]
BuiltEdges == last.edges

PairOf(e) == <<e[1], e[2]>>
ValidEdge(n, e) == e[1] < n /\ e[2] < n
AllValid(n, edges) == \A k \in 1..Len(edges) : ValidEdge(n, edges[k])
\* no ordered pair listed twice
NoRepeatedPair(edges) ==
    \A a, b \in 1..Len(edges) : a < b => PairOf(edges[a]) # PairOf(edges[b])
\* no unordered pair listed twice: an undirected edge is an unordered pair
NoRepeatedEdge(edges) ==
    \A a, b \in 1..Len(edges) :
        a < b => /\ PairOf(edges[a]) # PairOf(edges[b])
                 /\ PairOf(edges[a]) # <<edges[b][2], edges[b][1]>>
Listed(edges, i, j) == \E k \in 1..Len(edges) : PairOf(edges[k]) = <<i, j>>
IsSquare(G) ==
    /\ Len(G.adj_mat) = G.n_nodes
    /\ \A r \in 1..Len(G.adj_mat) : Len(G.adj_mat[r]) = G.n_nodes

FirstInvalid(n, edges) ==
    CHOOSE k \in 1..Len(edges) :
        /\ ~ValidEdge(n, edges[k])
        /\ \A j \in 1..(k - 1) : ValidEdge(n, edges[j])

BuiltByList == last.op \in {"from_edges", "from_weighted_edges"}

\* C12 (as claimed): from_edges and from_weighted_edges fail with the "not
\* valid" error and create no graph whenever some edge of the list has
\* src >= n or dest >= n, whatever comes before it.
C12_InvalidEdgeNotValid ==
    (BuiltByList /\ ~AllValid(BuiltN, BuiltEdges))
        => /\ ~last.ok
           /\ last.err = "edge is not valid"
           /\ g = DGraph_new

\* C12 (amended): such a call always fails and creates no graph; the error is
\* "not valid" when no pair is repeated among the edges in front of the
\* first invalid one, and "is repeated" or "not valid" in any case.
C12_InvalidEdgeFails ==
    (BuiltByList /\ ~AllValid(BuiltN, BuiltEdges))
        => /\ ~last.ok
           /\ g = DGraph_new
           /\ last.err \in {"edge is not valid", "edge is repeated"}
           /\ NoRepeatedPair(SubSeq(BuiltEdges, 1, FirstInvalid(BuiltN, BuiltEdges) - 1))
                 => last.err = "edge is not valid"

\* an invalid edge in third position, behind two valid ones
C12_Witness ==
    /\ last.op = "from_edges" /\ ~last.ok /\ last.err = "edge is not valid"
    /\ Len(BuiltEdges) = 3
    /\ FirstInvalid(BuiltN, BuiltEdges) = 3

\* some pair with valid indices is listed at two positions, the later one b
RepeatsAt(n, edges, b) ==
    \E a \in 1..(b - 1) :
        PairOf(edges[a]) = PairOf(edges[b]) /\ ValidEdge(n, edges[b])

\* C13 (as claimed): DGraph::from_edges fails with the "is repeated" error
\* whenever one pair with valid indices occurs more than once in the list.
C13_RepeatedPairRepeated ==
    (last.op = "from_edges"
        /\ \E b \in 1..Len(BuiltEdges) : RepeatsAt(BuiltN, BuiltEdges, b))
        => (~last.ok /\ last.err = "edge is repeated")

\* C13 (amended): it does whenever such a pair occurs a second time with
\* no invalid edge in front of that second occurrence.
C13_RepeatedPairFails ==
    (last.op = "from_edges"
        /\ \E b \in 1..Len(BuiltEdges) :
              /\ RepeatsAt(BuiltN, BuiltEdges, b)
              /\ AllValid(BuiltN, SubSeq(BuiltEdges, 1, b - 1)))
        => (~last.ok /\ last.err = "edge is repeated" /\ g = DGraph_new)

\* the first and the third edge are the same pair, another edge in between
C13_Witness ==
    /\ last.op = "from_edges" /\ ~last.ok /\ last.err = "edge is repeated"
    /\ Len(BuiltEdges) = 3
    /\ PairOf(BuiltEdges[1]) = PairOf(BuiltEdges[3])
    /\ PairOf(BuiltEdges[1]) # PairOf(BuiltEdges[2])

\* C14 (as claimed, on lists whose edges are all valid): from_weighted_edges
\* fails with the "is repeated" error whenever two triples share their
\* (src, dest) pair, whatever the two weights.
C14_RepeatedTripleRepeated ==
    (last.op = "from_weighted_edges" /\ AllValid(BuiltN, BuiltEdges)
        /\ ~NoRepeatedPair(BuiltEdges))
        => (~last.ok /\ last.err = "edge is repeated")

\* ------------------------------------------------------ claims, DGraph API
\* C15: from_adjacency_matrix(m) fails with the "not squared" error and
\* creates no graph when some row of m is not as long as m has rows, and
\* succeeds with n_nodes the number of rows otherwise, the empty matrix
\* included.
C15_SquareOrRefused ==
    last.op = "from_adjacency_matrix" =>
        LET m == last.matrix IN
        IF \E r \in 1..Len(m) : Len(m[r]) # Len(m)
        THEN /\ ~last.ok
             /\ last.err = "the adjacency matrix is not squared"
             /\ g = DGraph_new
        ELSE /\ last.ok
             /\ get_n_nodes(g) = Len(m)

\* a matrix of two rows refused for a row that is one cell short
C15_Witness ==
    /\ last.op = "from_adjacency_matrix" /\ ~last.ok
    /\ Len(last.matrix) = 2
    /\ \E r \in 1..2 : Len(last.matrix[r]) = 1

\* C16: after any successful constructor and any sequence of add_node,
\* add_edge and add_weighted_edge calls, failed ones included, the matrix has
\* n_nodes rows of n_nodes entries each.
C16_SquareMatrix == IsSquare(g)

\* a node added to a graph that a constructor built
C16_Witness ==
    /\ last.op = "add_node" /\ ops = 2
    /\ get_n_nodes(g) >= 2

\* C17: get_adjacency_matrix() called on the graph from_adjacency_matrix(m)
\* built returns m, cell for cell.
C17_RoundTrip ==
    [][(last.op = "from_adjacency_matrix" /\ last.ok
            /\ last'.op = "get_adjacency_matrix")
          => last'.ret_matrix = last.matrix]_vars

\* a matrix of two rows or more read back with a negative weight on the
\* diagonal
C17_Witness ==
    /\ last.op = "get_adjacency_matrix" /\ ops = 2
    /\ Len(last.ret_matrix) >= 2
    /\ \E i \in Nodes(g) : At(At(last.ret_matrix, i), i) = -1

\* the matrix of G with k more rows and columns, the old cells kept and 0.0
\* in every new cell
Grown(G, k) ==
    [i \in 1..(get_n_nodes(G) + k) |-> [j \in 1..(get_n_nodes(G) + k) |->
        IF i <= get_n_nodes(G) /\ j <= get_n_nodes(G) THEN G.adj_mat[i][j] ELSE 0]]

\* the calls number j to k of k add_node calls on the graph G0, the graph
\* G being what the calls before them left: each returns and leaves G0 grown
\* by j
RECURSIVE AddNodeCalls(_, _, _, _)
AddNodeCalls(G0, G, j, k) ==
    IF j > k THEN TRUE
    ELSE LET r == add_node(G) IN
         /\ r = Done([n_nodes |-> get_n_nodes(G0) + j, adj_mat |-> Grown(G0, j)])
         /\ AddNodeCalls(G0, r.g, j + 1, k)

\* C18: k calls of add_node never fail, raise the node count by exactly k,
\* keep every cell [i][j] with i, j below the old node count, and leave 0.0
\* in every cell of a new row or column.
C18_AddNodeGrows == AddNodeCalls(g, g, 1, MaxAdds)

\* a graph with an edge, itself the result of an add_node call
C18_Witness ==
    /\ last.op = "add_node" /\ last.ok
    /\ \E i, j \in Nodes(g) : Cell(g, i, j) # 0

\* C19: get_nodes() returns 0, 1, ..., get_n_nodes()-1 in ascending order,
\* and a get_nodes() call right after another returns the same sequence.
C19_GetNodes ==
    [][(last'.op = "get_nodes" /\ ops' = ops + 1)
          => /\ last'.ok
             /\ Len(last'.ret_nodes) = get_n_nodes(g)
             /\ \A k \in 1..get_n_nodes(g) : last'.ret_nodes[k] = k - 1
             /\ last.op = "get_nodes" => last'.ret_nodes = last.ret_nodes]_vars

C19_Witness == last.op = "get_nodes" /\ last.ret_nodes = <<0, 1>>

\* the cell a successful add_edge or add_weighted_edge call writes, and what
\* it writes
WrittenEdge(call) ==
    IF call.op = "add_edge" THEN <<call.args[1], call.args[2], 1>>
    ELSE <<call.args[1], call.args[2], call.args[3]>>

\* C20: a successful add_edge(src, dest) sets cell [src][dest] to 1.0 and a
\* successful add_weighted_edge(src, dest, w) sets it to w, whatever it held;
\* n_nodes and every other cell, [dest][src] included, stay as they were.
C20_SingleCellWritten ==
    [][(last'.op \in {"add_edge", "add_weighted_edge"} /\ last'.ok
            /\ ops' = ops + 1)
          => LET e == WrittenEdge(last') IN
             /\ get_n_nodes(g') = get_n_nodes(g)
             /\ g'.adj_mat =
                    [i \in 1..get_n_nodes(g) |-> [j \in 1..get_n_nodes(g) |->
                        IF <<i - 1, j - 1>> = <<e[1], e[2]>> THEN e[3]
                        ELSE g.adj_mat[i][j]]]]_vars

\* a weight written over one direction of a pair, the other direction
\* holding a different weight
C20_Witness ==
    /\ last.op = "add_weighted_edge" /\ last.ok
    /\ last.args[1] # last.args[2]
    /\ Cell(g, last.args[1], last.args[2]) = -1
    /\ Cell(g, last.args[2], last.args[1]) = 2

\* ---------------------------------------------------------------- C21
\* C21: for every DGraph and valid node v, get_successors_of(v) is the
\* ascending list of exactly the nodes j with cell [v][j] != 0.0 and
\* get_predecessors_of(v) the ascending list of exactly the nodes i with cell
\* [i][v] != 0.0, a self-loop on v putting v in both; both fail with a
\* "not valid" error when v >= n_nodes.
Ascending(v) == \A a, b \in 1..Len(v) : a < b => v[a] < v[b]
Elems(v) == { v[a] : a \in 1..Len(v) }
QueriedNode == last.args[1]

C21_SuccessorsPredecessors ==
    /\ last.op = "get_successors_of" =>
         IF QueriedNode >= get_n_nodes(g)
         THEN ~last.ok /\ last.err = "node is not valid"
         ELSE /\ last.ok
              /\ Ascending(last.ret_nodes)
              /\ Elems(last.ret_nodes) = { j \in Nodes(g) : Cell(g, QueriedNode, j) # 0 }
    /\ last.op = "get_predecessors_of" =>
         IF QueriedNode >= get_n_nodes(g)
         THEN ~last.ok /\ last.err = "node is not valid"
         ELSE /\ last.ok
              /\ Ascending(last.ret_nodes)
              /\ Elems(last.ret_nodes) = { i \in Nodes(g) : Cell(g, i, QueriedNode) # 0 }

\* the predecessors of a node with a self-loop and another node before it,
\* on a graph where the node has a different list of successors
C21_Witness ==
    /\ last.op = "get_predecessors_of"
    /\ last.ok
    /\ Len(last.ret_nodes) = 2
    /\ QueriedNode \in Elems(last.ret_nodes)
    /\ Cell(g, QueriedNode, QueriedNode) # 0
    /\ get_successors_of(g, QueriedNode).nodes # last.ret_nodes

\* ---------------------------------------------------------------- C22
\* C22: for an undirected graph, in every state reached from a successful
\* construction by any sequence of add_node and edge-adding mutators, unit
\* weight and weighted, matrix[i][j] = matrix[j][i] for all i, j.
Symmetric(m) ==
    \A i, j \in 1..Len(m) : m[i][j] = m[j][i]

SquareMatrix(m) == \A r \in 1..Len(m) : Len(m[r]) = Len(m)

C23_AsymmetricRefused ==
    (last.op = "UGraph::from_adjacency_matrix" /\ SquareMatrix(last.matrix)) =>
        IF Symmetric(last.matrix)
        THEN last.ok /\ g = [n_nodes |-> Len(last.matrix), adj_mat |-> last.matrix]
        ELSE ~last.ok /\ g = UGraph_new

\* the matrix with m[0][1] = 4 and m[1][0] = 1 was refused
C23_Witness ==
    /\ last.op = "UGraph::from_adjacency_matrix"
    /\ last.matrix = <<<<0, 4>>, <<1, 0>>>>
    /\ ~last.ok
    /\ g = UGraph_new

\* ---------------------------------------------------------------- C24
UndirectedListCall ==
    last.op \in {"UGraph::from_edges", "UGraph::from_weighted_edges"}
\* the weight the call writes for an edge of its list
WrittenWeight(e) == IF last.op = "UGraph::from_edges" THEN 1 ELSE e[3]
\* the list holds (a, b) at p and (b, a) at q, later, with a # b
ReversedAt(edges, p, q) ==
    /\ p < q
    /\ edges[p][1] # edges[p][2]
    /\ PairOf(edges[q]) = <<edges[p][2], edges[p][1]>>

C25_NeighborsEitherWay ==
    last.op = "get_neighbors_of" =>
        IF QueriedNode >= get_n_nodes(g)
        THEN ~last.ok /\ last.err = "node is not valid"
        ELSE /\ last.ok
             /\ Ascending(last.ret_nodes)
             /\ Elems(last.ret_nodes) =
                    { u \in Nodes(g) : \/ Cell(g, QueriedNode, u) # 0
                                       \/ Cell(g, u, QueriedNode) # 0 }

\* C25 (amended): get_neighbors_of(v) returns, in ascending order, exactly
\* the nodes u with cell [v][u] != 0.0, the row of v; these are the nodes
\* with an edge to or from v when the matrix is symmetric. It fails with
\* "not valid" when v >= n_nodes.
C25_NeighborsOfRow ==
    last.op = "get_neighbors_of" =>
        IF QueriedNode >= get_n_nodes(g)
        THEN ~last.ok /\ last.err = "node is not valid"
        ELSE /\ last.ok
             /\ Ascending(last.ret_nodes)
             /\ Elems(last.ret_nodes) =
                    { u \in Nodes(g) : Cell(g, QueriedNode, u) # 0 }
             /\ Symmetric(g.adj_mat) =>
                    Elems(last.ret_nodes) =
                        { u \in Nodes(g) : \/ Cell(g, QueriedNode, u) # 0
                                           \/ Cell(g, u, QueriedNode) # 0 }

\* the neighbors of a node with an outgoing edge and an incoming edge from
\* another node, which is not listed
C25_Witness ==
    /\ last.op = "get_neighbors_of"
    /\ last.ok
    /\ Len(last.ret_nodes) = 1
    /\ \E u \in Nodes(g) : /\ Cell(g, u, QueriedNode) # 0
                           /\ u \notin Elems(last.ret_nodes)

\* ---------------------------------------------------------------- C26
Unvisited == { i \in Nodes(g) : At(visited, i) = FALSE }

\* C26 (as claimed): in every iteration of the main loop the selection step
\* returns a valid, currently unvisited node: the unvisited node with
\* minimum dist, the lowest index among ties, which is the first unvisited
\* node when every unvisited node has dist = +infinity.
C26_SelectionValid ==
    (pc = "loop" /\ iter < get_n_nodes(g)) =>
        LET c == min_distance_node(g, dist, visited) IN
        /\ c \in Unvisited
        /\ \A i \in Unvisited : At(dist, c) <= At(dist, i)
        /\ \A i \in Unvisited : At(dist, i) = At(dist, c) => c <= i

\* ---------------------------------------------------------------- C27
\* C27: during a run of dijkstra, once a node has been marked visited its
\* dist entry is never written again, on every graph, negative weights
\* included.
C27_VisitedFrozen ==
    [][\A i \in 1..Len(visited) : visited[i] = TRUE => dist'[i] = dist[i]]_vars

\* a relaxation pass from a node with an edge into a visited node that would
\* shorten the distance of that node
C27_Witness ==
    /\ pc = "relax"
    /\ \E n \in Nodes(g) :
          /\ n # current
          /\ At(visited, n) = TRUE
          /\ Cell(g, current, n) # 0
          /\ At(dist, n) > FAdd(At(dist, current), Cell(g, current, n))

\* ---------------------------------------------------------------- C28
\* C28 (as claimed): every run of dijkstra with a valid source terminates
\* after exactly get_n_nodes() iterations, each iteration marks exactly one
\* node that was unvisited before it, and at the end every node is visited.
Marked == { i \in 1..Len(visited) : visited[i] = TRUE }

C28_AllVisitedAtEnd ==
    /\ pc \in {"loop", "done"} => Cardinality(Marked) = iter
    /\ ValidRun => /\ pc = "done"
                   /\ iter = get_n_nodes(g)
                   /\ Cardinality(Marked) = get_n_nodes(g)

\* ---------------------------------------------------------------- C29
\* C29: whenever dijkstra(g, s) returns, result[s] is exactly 0.0 on every
\* graph, also when the source has a self-loop of any sign or when negative
\* edges lead into the source: the source is the first node marked visited
\* and relaxation never alters dist[s].
C29_SourceStaysZero ==
    /\ pc = "done" => At(dist, src) = 0
    /\ (pc \in {"loop", "relax"} /\ iter + (IF pc = "relax" THEN 1 ELSE 0) >= 1) =>
           (At(visited, src) = TRUE /\ At(dist, src) = 0)

\* a returned result for a source with a negative self-loop and a negative
\* edge into it from another node
C29_Witness ==
    /\ pc = "done"
    /\ Cell(g, src, src) < 0
    /\ \E i \in Nodes(g) : i # src /\ Cell(g, i, src) < 0

\* ---------------------------------------------------------------- C30
\* what get_edge returns for the pair of the last call
EdgeRead == get_edge(g, last.args[1], last.args[2])

\* C30 (as claimed): for every graph, every valid pair and every weight w,
\* after a successful add_weighted_edge(src, dest, w) the query
\* get_edge(src, dest) returns Some(w); after add_edge it returns Some(1.0).
C30_AddThenGet ==
    /\ (last.op = "add_weighted_edge" /\ last.ok) => EdgeRead = Ok(Some(last.args[3]))
    /\ (last.op = "add_edge" /\ last.ok) => EdgeRead = Ok(Some(1))

\* C30 (amended): it returns Some(w) for every weight w other than 0.0, and
\* None after add_weighted_edge(src, dest, 0.0); after add_edge it returns
\* Some(1.0).
C30_AddThenGetNonZero ==
    /\ (last.op = "add_weighted_edge" /\ last.ok) =>
           EdgeRead = (IF last.args[3] # 0 THEN Ok(Some(last.args[3])) ELSE Ok(None))
    /\ (last.op = "add_edge" /\ last.ok) => EdgeRead = Ok(Some(1))

\* a negative weight written on a graph built from a matrix
C30_Witness ==
    /\ last.op = "add_weighted_edge"
    /\ last.ok
    /\ ops = 2
    /\ last.args[3] = -1
    /\ \E i, j \in Nodes(g) : Cell(g, i, j) = 2

====
